---- MODULE Spec2Model ----
(***************************************************************************)
(* Model of FOFRA/fofra2018.h.                                             *)
(*                                                                         *)
(* The header holds one piece of executable logic: the output stream       *)
(* operator for ReturnCode (lines 55-89), a switch over the enumerators of *)
(* ReturnCode (lines 27-53).  ScoreFuserInterface and                      *)
(* TemplateFuserInterface declare pure virtual methods only                *)
(* (initialize, fuseVerificationScores, fuseCandidateLists, fuseTemplates, *)
(* verify, createGallery, search are all "= 0"); they have no body in the  *)
(* repository, so they have no transition here.                            *)
(*                                                                         *)
(* State: the output stream the operator writes to, kept as the sequence   *)
(* of messages inserted so far, and the sequence of ReturnCode values that *)
(* were passed to the operator.                                            *)
(***************************************************************************)
EXTENDS Integers, Sequences, FiniteSets

(* ---- bounds ---- *)

\* Number of insertions into the stream that are explored.
MaxWrites == 2

\* How many integer values below Success and above VendorError are explored.
\* ReturnCode is a scoped enum, so its underlying type is int and every int
\* value is a valid value of the type (reachable with a static_cast).
OutOfRange == 2

(* ---- enum class ReturnCode (lines 27-53) ---- *)

Success == 0
ConfigError == 1
ParseError == 2
TemplateCreationError == 3
VerifTemplateError == 4
NumDataError == 5
TemplateFormatError == 6
InputLocationError == 7
MemoryError == 8
NotImplemented == 9
NonCongruentVectors == 10
VendorError == 11

\* The enumerators of ReturnCode.
ReturnCode ==
    { Success, ConfigError, ParseError, TemplateCreationError,
      VerifTemplateError, NumDataError, TemplateFormatError,
      InputLocationError, MemoryError, NotImplemented,
      NonCongruentVectors, VendorError }

\* The values of type ReturnCode that are explored: the enumerators and
\* OutOfRange values on each side of them.
ReturnCodeValues == (Success - OutOfRange) .. (VendorError + OutOfRange)

(* ---- operator<<(std::ostream&, const ReturnCode&) (lines 55-89) ---- *)

\* The switch with the case for NotImplemented left out, so that the value
\* falls through to the default label.
MessageOfMissingCase(rc) ==
    CASE rc = Success -> "Success"
      [] rc = ConfigError -> "Error reading configuration files"
      [] rc = ParseError -> "Cannot parse the input data"
      [] rc = TemplateCreationError -> "Elective refusal to produce a template"
      [] rc = VerifTemplateError ->
            "Either/both input templates were result of failed feature extraction"
      [] rc = NumDataError -> "Number of input images not supported"
      [] rc = TemplateFormatError ->
            "Template file is an incorrect format or defective"
      [] rc = InputLocationError ->
            "Cannot locate the input data - the input files or names seem incorrect"
      [] rc = MemoryError -> "Memory allocation failed (e.g. out of memory)"
      [] rc = NonCongruentVectors ->
            "Vectors of different lengths passed to function expecting same lengths"
      [] rc = VendorError -> "Vendor-defined error"
      [] OTHER -> "Undefined error"

\* The text the switch inserts into the stream for rc.  The case labels are
\* in the order of the source (NonCongruentVectors before NotImplemented).
MessageOf(rc) ==
    CASE rc = Success -> "Success"
      [] rc = ConfigError -> "Error reading configuration files"
      [] rc = ParseError -> "Cannot parse the input data"
      [] rc = TemplateCreationError -> "Elective refusal to produce a template"
      [] rc = VerifTemplateError ->
            "Either/both input templates were result of failed feature extraction"
      [] rc = NumDataError -> "Number of input images not supported"
      [] rc = TemplateFormatError ->
            "Template file is an incorrect format or defective"
      [] rc = InputLocationError ->
            "Cannot locate the input data - the input files or names seem incorrect"
      [] rc = MemoryError -> "Memory allocation failed (e.g. out of memory)"
      [] rc = NonCongruentVectors ->
            "Vectors of different lengths passed to function expecting same lengths"
      [] rc = NotImplemented -> "Function is not implemented"
      [] rc = VendorError -> "Vendor-defined error"
      [] OTHER -> "Undefined error"

(* ---- state ---- *)

VARIABLES
    s,      \* the std::ostream: the messages inserted so far, in order
    codes   \* the ReturnCode values passed to operator<<, in order

vars == <<s, codes>>

\* A freshly constructed stream: nothing inserted.
Init ==
    /\ s = <<>>
    /\ codes = <<>>

\* s << rc : one call of the stream operator with an arbitrary value of
\* type ReturnCode.  The operator inserts the message and returns the stream.
StreamInsert ==
    /\ Len(s) < MaxWrites
    /\ \E rc \in ReturnCodeValues :
          /\ s' = Append(s, MessageOf(rc))
          /\ codes' = Append(codes, rc)

Next == StreamInsert

Spec == Init /\ [][Next]_vars

(* ---- properties ---- *)

\* C10: the stream operator is total and injective on the taxonomy: every
\* call writes a message; each of the 12 enumerated codes is written as a
\* message of its own, which no other enumerated code shares and which is
\* not "Undefined error"; every value outside the 12 is written as
\* "Undefined error".
StreamOperatorTotalInjective ==
    /\ Cardinality(ReturnCode) = 12
    /\ Len(s) = Len(codes)
    /\ \A i \in 1 .. Len(s) :
          /\ codes[i] \in ReturnCode => s[i] # "Undefined error"
          /\ codes[i] \notin ReturnCode => s[i] = "Undefined error"
          /\ \A j \in 1 .. Len(s) :
                (codes[i] \in ReturnCode /\ codes[j] \in ReturnCode
                    /\ s[i] = s[j]) => codes[i] = codes[j]

\* Witness for C10: the operator has been called twice, once with
\* NotImplemented and once with a value outside the enumeration.
StreamOperatorWitness ==
    /\ Len(s) = 2
    /\ codes[1] = NotImplemented
    /\ s[1] = "Function is not implemented"
    /\ codes[2] = VendorError + 1
    /\ s[2] = "Undefined error"

====
